---- MODULE Spec2Model ----
(***************************************************************************)
(* The extension region of an account buffer (src/src/lib.rs):             *)
(*   [ base record ][ EXT_START_MARKER ]( tag | state | len:u16 LE | payload )*  *)
(* and the operations of trait StateExtension over it.  Offsets are the     *)
(* 0-based byte offsets of the source; sequences are 1-based, so the byte   *)
(* at offset i of d is d[i + 1].                                            *)
(***************************************************************************)
EXTENDS Integers, Sequences, FiniteSets, TLC

\* ------------------------------------------------------------------ bounds
\* add_extension is not taken once the buffer would grow beyond MaxLen bytes.
MaxLen == 21

\* --------------------------------------------------------------- constants
EXT_META_LEN == 4

\* StateExtension's associated constants (chosen by the implementing type).
BASE_STATE_LEN == 2
EXT_START_MARKER == <<101, 102, 103, 104, 105, 106, 107, 108>>
OWNER_PROGRAM == "owner_program"

\* The bytes of the base record (defined outside this library).
BaseRecord == <<200, 201>>

\* The concrete Extension types of the model: E.tag is E::ext_type(),
\* E.LEN is E::LEN.  TypeA/TypeB share LEN, TypeC is longer.
TypeA == [tag |-> 5, LEN |-> 1]
TypeB == [tag |-> 7, LEN |-> 1]
TypeC == [tag |-> 9, LEN |-> 2]
ExtTypes == {TypeA, TypeB, TypeC}
NoType == [tag |-> 0, LEN |-> 0]

\* The raw values of the caller's tag enumeration E::ExtensionEnum (as_u8).
ExtEnumTags == {5, 7, 9}

\* The enumeration V handed to get_extension_variants recognises these bytes.
VariantTags == {5, 7}

ext_len(E) == E.LEN

\* Mutant of ext_with_meta_len: the header bytes are left out.
ext_without_meta_len(E) == E.LEN

ext_with_meta_len(E) == E.LEN + EXT_META_LEN

\* The values of type E, as the LEN bytes of their in-memory representation.
PayloadBytes == {0, 3}
Values(E) == [1..E.LEN -> PayloadBytes]

\* ------------------------------------------------------------ ExtensionState
\* Mutant of ExtensionState_as_u8: the discriminant instead of the mapping.
ExtensionState_as_u8_raw(s) == IF s = "Zerod" THEN 0 ELSE 1

\* impl ExtensionEnum for ExtensionState
ExtensionState_as_u8(s) == IF s = "Initialized" THEN 0 ELSE 1

\* Mutant of ExtensionState_from_u8: every other byte counts as Zerod.
ExtensionState_from_u8_lenient(b) == IF b = 0 THEN "Initialized" ELSE "Zerod"

ExtensionState_from_u8(b) ==
    CASE b = 0 -> "Initialized"
      [] b = 1 -> "Zerod"
      [] OTHER -> "None"

\* `ExtensionState::X as u8`: the #[repr(u8)] discriminant.
ExtensionState_discriminant(s) == IF s = "Zerod" THEN 0 ELSE 1

\* ------------------------------------------------------------------- bytes
Slice(d, a, b) == SubSeq(d, a + 1, b)

\* Mutant of to_le_bytes: the length written high byte first.
to_be_bytes(n) == <<(n \div 256) % 256, n % 256>>

\* u16::to_le_bytes / u16::from_le_bytes
to_le_bytes(n) == <<n % 256, (n \div 256) % 256>>

from_le_bytes(bs) == bs[1] + 256 * bs[2]

\* Mutant of sol_memcpy: the bytes go to the start of the buffer, not to the
\* part of it from off on.
sol_memcpy_at_start(d, off, buf) ==
    [i \in 1..Len(d) |-> IF i <= Len(buf) THEN buf[i] ELSE d[i]]

\* sol_memcpy(&mut d[off..], buf, Len(buf))
sol_memcpy(d, off, buf) ==
    [i \in 1..Len(d) |->
        IF i > off /\ i <= off + Len(buf) THEN buf[i - off] ELSE d[i]]

\* Mutant of sol_memset: the fill starts at the entry's header, EXT_META_LEN
\* bytes early.
sol_memset_at_header(d, off, n) ==
    [i \in 1..Len(d) |->
        IF i > off - EXT_META_LEN /\ i <= off - EXT_META_LEN + n THEN 0 ELSE d[i]]

\* sol_memset(&mut d[off..], 0, n)
sol_memset(d, off, n) ==
    [i \in 1..Len(d) |-> IF i > off /\ i <= off + n THEN 0 ELSE d[i]]

Zeros(n) == [i \in 1..n |-> 0]

\* Mutant of realloc: one byte more than asked for.
realloc_one_more(d, new_len) == d \o Zeros(new_len - Len(d) + 1)

\* acc.realloc(new_len, false) growing the buffer; the added bytes arrive zero.
realloc(d, new_len) == d \o Zeros(new_len - Len(d))

\* Extension::pack
pack(E, ext) == SubSeq(ext, 1, E.LEN)

\* Mutant of unpack: the length of the bytes is not checked.
unpack_any_len(E, bytes) == [ok |-> TRUE, ext |-> bytes]

\* Extension::unpack
unpack(E, bytes) ==
    IF Len(bytes) # E.LEN THEN [ok |-> FALSE, ext |-> <<>>]
    ELSE [ok |-> TRUE, ext |-> bytes]

\* Mutant of check_ext_marker: only the first byte is compared.
check_ext_marker_first_byte(bytes) == bytes[1] = EXT_START_MARKER[1]

check_ext_marker(bytes) == bytes = EXT_START_MARKER

\* The bytes of one entry.
EntryBytes(tag, st, len, payload) == <<tag, st>> \o to_le_bytes(len) \o payload

\* ---------------------------------------------------------------- locator
NotFound == [kind |-> "None", ext |-> <<>>, position |-> 0, state |-> "None"]
Aborted == [kind |-> "Panic", ext |-> <<>>, position |-> 0, state |-> "None"]
Found(ext, pos, st) == [kind |-> "Some", ext |-> ext, position |-> pos, state |-> st]

\* Mutant of get_extension_scan: the scan goes on after a match and returns
\* the last one.
RECURSIVE get_extension_scan_last(_, _, _, _)
get_extension_scan_last(data, E, ext_type, cursor) ==
    IF ~(cursor < Len(data)) THEN NotFound
    ELSE
      LET read_ext_type == data[cursor + 1]
          c1 == cursor + 1
      IN  IF c1 >= Len(data) THEN Aborted
          ELSE
          LET ext_state == ExtensionState_from_u8(data[c1 + 1])
              c2 == c1 + 1
          IN  IF ext_state = "None" THEN NotFound
              ELSE IF c2 + 2 > Len(data) THEN NotFound
              ELSE
              LET len == from_le_bytes(Slice(data, c2, c2 + 2))
                  c3 == c2 + 2
              IN  IF c3 + len > Len(data) THEN Aborted
                  ELSE
                  LET u == unpack(E, Slice(data, c3, c3 + len))
                      later == get_extension_scan_last(data, E, ext_type, c3 + len)
                  IN  IF u.ok /\ read_ext_type = ext_type /\ later.kind # "Some"
                      THEN Found(u.ext, cursor, ext_state)
                      ELSE later

\* The while loop of get_extension_from_acc_data_unchecked, from `cursor`.
RECURSIVE get_extension_scan(_, _, _, _)
get_extension_scan(data, E, ext_type, cursor) ==
    IF ~(cursor < Len(data)) THEN NotFound
    ELSE
      LET read_ext_type == data[cursor + 1]
          c1 == cursor + 1
      IN  IF c1 >= Len(data) THEN Aborted             \* data[ext_data_cursor]
          ELSE
          LET ext_state == ExtensionState_from_u8(data[c1 + 1])
              c2 == c1 + 1
          IN  IF ext_state = "None" THEN NotFound     \* `?`
              ELSE IF c2 + 2 > Len(data) THEN NotFound    \* get(..) = None: break
              ELSE
              LET len == from_le_bytes(Slice(data, c2, c2 + 2))
                  c3 == c2 + 2
              IN  IF c3 + len > Len(data) THEN Aborted    \* &data[c3..c3 + len]
                  ELSE
                  LET u == unpack(E, Slice(data, c3, c3 + len))
                  IN  IF u.ok /\ read_ext_type = ext_type
                      THEN Found(u.ext, cursor, ext_state)
                      ELSE get_extension_scan(data, E, ext_type, c3 + len)

get_extension_from_acc_data_unchecked(data, E, ext_type) ==
    IF BASE_STATE_LEN + Len(EXT_START_MARKER) > Len(data) THEN NotFound
    ELSE IF ~check_ext_marker(
              Slice(data, BASE_STATE_LEN, BASE_STATE_LEN + Len(EXT_START_MARKER)))
    THEN NotFound
    ELSE get_extension_scan(data, E, ext_type,
                            BASE_STATE_LEN + Len(EXT_START_MARKER))

get_extension(acc_owner, data, E, ext_type) ==
    IF acc_owner # OWNER_PROGRAM THEN NotFound
    ELSE IF Len(data) < BASE_STATE_LEN + Len(EXT_START_MARKER) THEN NotFound
    ELSE get_extension_from_acc_data_unchecked(data, E, ext_type)

\* The while loop of get_extension_variants_from_acc_data_uncheked.
NoVariants == [kind |-> "None", list |-> <<>>]
VariantsAborted == [kind |-> "Panic", list |-> <<>>]
SomeVariants(l) == [kind |-> "Some", list |-> l]

\* Mutant of get_extension_variants_scan: the scan ends at the first tag the
\* enumeration does not recognise.
RECURSIVE get_extension_variants_scan_until_unknown(_, _, _)
get_extension_variants_scan_until_unknown(data, cursor, extensions) ==
    IF ~(cursor < Len(data)) THEN SomeVariants(extensions)
    ELSE
      LET ext_type == data[cursor + 1]
          c1 == cursor + 1
      IN  IF ext_type \notin VariantTags THEN SomeVariants(extensions)
          ELSE IF c1 >= Len(data) THEN VariantsAborted
          ELSE
          LET c2 == c1 + 1
          IN  IF c2 + 2 > Len(data) THEN SomeVariants(Append(extensions, ext_type))
              ELSE get_extension_variants_scan_until_unknown(
                      data, c2 + 2 + from_le_bytes(Slice(data, c2, c2 + 2)),
                      Append(extensions, ext_type))

RECURSIVE get_extension_variants_scan(_, _, _)
get_extension_variants_scan(data, cursor, extensions) ==
    IF ~(cursor < Len(data)) THEN SomeVariants(extensions)
    ELSE
      LET ext_type == data[cursor + 1]
          pushed == IF ext_type \in VariantTags
                    THEN Append(extensions, ext_type) ELSE extensions
          c1 == cursor + 1
      IN  IF c1 >= Len(data) THEN VariantsAborted     \* data[ext_data_cursor]
          ELSE
          LET c2 == c1 + 1
          IN  IF c2 + 2 > Len(data) THEN SomeVariants(pushed)     \* break
              ELSE get_extension_variants_scan(
                      data, c2 + 2 + from_le_bytes(Slice(data, c2, c2 + 2)), pushed)

get_extension_variants_from_acc_data_uncheked(data) ==
    IF BASE_STATE_LEN + Len(EXT_START_MARKER) > Len(data) THEN NoVariants
    ELSE IF ~check_ext_marker(
              Slice(data, BASE_STATE_LEN, BASE_STATE_LEN + Len(EXT_START_MARKER)))
    THEN NoVariants
    ELSE get_extension_variants_scan(
            data, BASE_STATE_LEN + Len(EXT_START_MARKER), <<>>)

get_extension_variants(acc_owner, data) ==
    IF acc_owner # OWNER_PROGRAM THEN NoVariants
    ELSE IF Len(data) <= BASE_STATE_LEN THEN NoVariants
    ELSE get_extension_variants_from_acc_data_uncheked(data)

\* ------------------------------------------------------------- operations
\* The outcome of a mutating operation: its result, the buffer afterwards,
\* the host primitives it invoked in order, and the size it asked
\* Rent::minimum_balance about (0 when no transfer was attempted).
Outcome(res, data, calls, rent_size) ==
    [res |-> res, data |-> data, calls |-> calls, rent_size |-> rent_size]

\* Mutant of add_extension: the buffer is grown and written before the
\* transfer is made.
add_extension_write_before_pay(acc_owner, data, E, extension, rent_ok, transfer_ok, realloc_ok) ==
    IF acc_owner # OWNER_PROGRAM THEN Outcome("IllegalOwner", data, <<>>, 0)
    ELSE IF Len(data) = 0 THEN Outcome("InvalidAccountData", data, <<>>, 0)
    ELSE IF Len(data) < BASE_STATE_LEN THEN Outcome("InvalidAccountData", data, <<>>, 0)
    ELSE IF ~rent_ok THEN Outcome("RentError", data, <<>>, 0)
    ELSE
    LET data_len == Len(data)
        no_extensions == data_len = BASE_STATE_LEN
        new_space_to_allocate ==
            IF no_extensions THEN Len(EXT_START_MARKER) + ext_with_meta_len(E)
            ELSE ext_with_meta_len(E)
        buffer ==
            (IF no_extensions THEN EXT_START_MARKER ELSE <<>>)
            \o <<E.tag, ExtensionState_as_u8("Initialized")>>
            \o to_le_bytes(ext_len(E))
            \o pack(E, extension)
        written == sol_memcpy(realloc(data, data_len + new_space_to_allocate),
                              data_len, buffer)
    IN  IF ~realloc_ok
        THEN Outcome("ReallocError", data, <<"realloc">>, 0)
        ELSE IF ~transfer_ok
        THEN Outcome("TransferError", written,
                     <<"realloc", "sol_memcpy", "Transfer">>, new_space_to_allocate)
        ELSE Outcome("Ok", written, <<"realloc", "sol_memcpy", "Transfer">>,
                     new_space_to_allocate)

\* Mutant of add_extension: a buffer shorter than the base record is let
\* through.
add_extension_any_len(acc_owner, data, E, extension, rent_ok, transfer_ok, realloc_ok) ==
    IF acc_owner # OWNER_PROGRAM THEN Outcome("IllegalOwner", data, <<>>, 0)
    ELSE IF Len(data) = 0 THEN Outcome("InvalidAccountData", data, <<>>, 0)
    ELSE IF ~rent_ok THEN Outcome("RentError", data, <<>>, 0)
    ELSE
    LET data_len == Len(data)
        no_extensions == data_len = BASE_STATE_LEN
        new_space_to_allocate ==
            IF no_extensions THEN Len(EXT_START_MARKER) + ext_with_meta_len(E)
            ELSE ext_with_meta_len(E)
        buffer ==
            (IF no_extensions THEN EXT_START_MARKER ELSE <<>>)
            \o <<E.tag, ExtensionState_as_u8("Initialized")>>
            \o to_le_bytes(ext_len(E))
            \o pack(E, extension)
    IN  IF ~transfer_ok
        THEN Outcome("TransferError", data, <<"Transfer">>, new_space_to_allocate)
        ELSE IF ~realloc_ok
        THEN Outcome("ReallocError", data, <<"Transfer", "realloc">>,
                     new_space_to_allocate)
        ELSE Outcome("Ok",
                     sol_memcpy(realloc(data, data_len + new_space_to_allocate),
                                data_len, buffer),
                     <<"Transfer", "realloc", "sol_memcpy">>,
                     new_space_to_allocate)

\* Mutant of add_extension: an entry of the same tag and length that is
\* already there is overwritten instead of a new entry being appended.
add_extension_merging(acc_owner, data, E, extension, rent_ok, transfer_ok, realloc_ok) ==
    IF acc_owner # OWNER_PROGRAM THEN Outcome("IllegalOwner", data, <<>>, 0)
    ELSE IF Len(data) = 0 THEN Outcome("InvalidAccountData", data, <<>>, 0)
    ELSE IF Len(data) < BASE_STATE_LEN THEN Outcome("InvalidAccountData", data, <<>>, 0)
    ELSE IF ~rent_ok THEN Outcome("RentError", data, <<>>, 0)
    ELSE
    LET data_len == Len(data)
        no_extensions == data_len = BASE_STATE_LEN
        new_space_to_allocate ==
            IF no_extensions THEN Len(EXT_START_MARKER) + ext_with_meta_len(E)
            ELSE ext_with_meta_len(E)
        entry ==
            <<E.tag, ExtensionState_as_u8("Initialized")>>
            \o to_le_bytes(ext_len(E))
            \o pack(E, extension)
        buffer == (IF no_extensions THEN EXT_START_MARKER ELSE <<>>) \o entry
        info == get_extension(acc_owner, data, E, E.tag)
    IN  IF info.kind = "Some"
        THEN Outcome("Ok", sol_memcpy(data, info.position, entry),
                     <<"sol_memcpy">>, 0)
        ELSE IF ~transfer_ok
        THEN Outcome("TransferError", data, <<"Transfer">>, new_space_to_allocate)
        ELSE IF ~realloc_ok
        THEN Outcome("ReallocError", data, <<"Transfer", "realloc">>,
                     new_space_to_allocate)
        ELSE Outcome("Ok",
                     sol_memcpy(realloc(data, data_len + new_space_to_allocate),
                                data_len, buffer),
                     <<"Transfer", "realloc", "sol_memcpy">>,
                     new_space_to_allocate)

\* add_extension::<E>(acc, fee_payer, rent, extension).  rent_ok, transfer_ok
\* and realloc_ok are the host's answers to Rent::from_account_info,
\* Transfer::invoke and AccountInfo::realloc.
add_extension(acc_owner, data, E, extension, rent_ok, transfer_ok, realloc_ok) ==
    IF acc_owner # OWNER_PROGRAM THEN Outcome("IllegalOwner", data, <<>>, 0)
    ELSE IF Len(data) = 0 THEN Outcome("InvalidAccountData", data, <<>>, 0)
    ELSE IF Len(data) < BASE_STATE_LEN THEN Outcome("InvalidAccountData", data, <<>>, 0)
    ELSE IF ~rent_ok THEN Outcome("RentError", data, <<>>, 0)
    ELSE
    LET data_len == Len(data)
        no_extensions == data_len = BASE_STATE_LEN
        new_space_to_allocate ==
            IF no_extensions THEN Len(EXT_START_MARKER) + ext_with_meta_len(E)
            ELSE ext_with_meta_len(E)
        buffer ==
            (IF no_extensions THEN EXT_START_MARKER ELSE <<>>)
            \o <<E.tag, ExtensionState_as_u8("Initialized")>>
            \o to_le_bytes(ext_len(E))
            \o pack(E, extension)
    IN  IF ~transfer_ok
        THEN Outcome("TransferError", data, <<"Transfer">>, new_space_to_allocate)
        ELSE IF ~realloc_ok
        THEN Outcome("ReallocError", data, <<"Transfer", "realloc">>,
                     new_space_to_allocate)
        ELSE Outcome("Ok",
                     sol_memcpy(realloc(data, data_len + new_space_to_allocate),
                                data_len, buffer),
                     <<"Transfer", "realloc", "sol_memcpy">>,
                     new_space_to_allocate)

\* zero_out_extension_data::<E>(acc, ext_type)
zero_out_extension_data(acc_owner, data, E, ext_type) ==
    LET info == get_extension(acc_owner, data, E, ext_type)
    IN  CASE info.kind = "Panic" -> Outcome("Panic", data, <<>>, 0)
          [] info.kind = "None" -> Outcome("Ok", data, <<>>, 0)
          [] OTHER ->
             LET ext_data_start == info.position + EXT_META_LEN
             IN  IF info.state = "Zerod"
                 THEN Outcome("Ok", sol_memset(data, ext_data_start, ext_len(E)),
                              <<"sol_memset">>, 0)
                 ELSE Outcome("ExtensionDataAleadyZerod", data, <<>>, 0)

\* Mutant of update_extension: a tag that is not found is an error.
update_extension_must_find(acc_owner, data, E, ext_type, extension) ==
    LET info == get_extension(acc_owner, data, E, ext_type)
    IN  CASE info.kind = "Panic" -> Outcome("Panic", data, <<>>, 0)
          [] info.kind = "None" -> Outcome("InvalidAccountData", data, <<>>, 0)
          [] OTHER ->
             IF info.state # "Zerod"
             THEN LET buffer ==
                          <<E.tag, ExtensionState_discriminant("Initialized")>>
                          \o to_le_bytes(ext_len(E))
                          \o pack(E, extension)
                  IN  Outcome("Ok", sol_memcpy(data, info.position, buffer),
                              <<"sol_memcpy">>, 0)
             ELSE Outcome("ExtensionDataIsNotInitialized", data, <<>>, 0)

\* Mutant of update_extension: the entry is rewritten whatever its state.
update_extension_unguarded(acc_owner, data, E, ext_type, extension) ==
    LET info == get_extension(acc_owner, data, E, ext_type)
    IN  CASE info.kind = "Panic" -> Outcome("Panic", data, <<>>, 0)
          [] info.kind = "None" -> Outcome("Ok", data, <<>>, 0)
          [] OTHER ->
             LET buffer ==
                     <<E.tag, ExtensionState_discriminant("Initialized")>>
                     \o to_le_bytes(ext_len(E))
                     \o pack(E, extension)
             IN  Outcome("Ok", sol_memcpy(data, info.position, buffer),
                         <<"sol_memcpy">>, 0)

\* update_extension::<E>(acc, ext_type, extension)
update_extension(acc_owner, data, E, ext_type, extension) ==
    LET info == get_extension(acc_owner, data, E, ext_type)
    IN  CASE info.kind = "Panic" -> Outcome("Panic", data, <<>>, 0)
          [] info.kind = "None" -> Outcome("Ok", data, <<>>, 0)
          [] OTHER ->
             IF info.state # "Zerod"
             THEN LET buffer ==
                          <<E.tag, ExtensionState_discriminant("Initialized")>>
                          \o to_le_bytes(ext_len(E))
                          \o pack(E, extension)
                  IN  Outcome("Ok", sol_memcpy(data, info.position, buffer),
                              <<"sol_memcpy">>, 0)
             ELSE Outcome("ExtensionDataIsNotInitialized", data, <<>>, 0)

\* ------------------------------------------------------------------ state
VARIABLES
    owner,      \* acc.owner()
    data,       \* the account's data buffer
    last,       \* the last call: its arguments, the buffer before it, its outcome
    start,      \* history: the buffer the host handed over first
    added       \* history: the successful add_extension calls, in order

vars == <<owner, data, last, start, added>>

AllOk == <<TRUE, TRUE, TRUE>>

Call(op, E, ext_type, extension, host, pre, res, calls, rent_size, info, variants) ==
    [op |-> op, E |-> E, ext_type |-> ext_type, extension |-> extension,
     host |-> host, pre |-> pre, res |-> res, calls |-> calls,
     rent_size |-> rent_size, info |-> info, variants |-> variants]

NoCall ==
    Call("none", NoType, 0, <<>>, AllOk, <<>>, "Ok", <<>>, 0, NotFound, NoVariants)

\* Buffers the host may hand over: too short, exactly the base record, a
\* wrong or incomplete marker, and a marker followed by entries of which one
\* may carry an unknown state byte (2) and the last may be cut off.
WrongMarker == <<101, 102, 103, 104, 105, 106, 107, 0>>

Prefixes(s) == {SubSeq(s, 1, n) : n \in 0..Len(s)}

RawEntries ==
    {EntryBytes(TypeA.tag, st, TypeA.LEN, <<3>>) : st \in {0, 2}}
    \cup {EntryBytes(TypeB.tag, 0, TypeB.LEN, <<3>>)
             \o EntryBytes(TypeA.tag, 2, TypeA.LEN, <<3>>)}

\* A further entry of TypeA: whole, cut off inside its header, cut off after
\* its header, or declaring one payload byte more than is there.
CutEntries ==
    Prefixes(EntryBytes(TypeA.tag, 0, TypeA.LEN, <<0>>))
    \cup {EntryBytes(TypeA.tag, 0, TypeA.LEN + 1, <<0>>)}

InitBuffers ==
    {<<>>, <<200>>, BaseRecord}
    \cup {BaseRecord \o EXT_START_MARKER \o e \o c :
            e \in {<<>>} \cup RawEntries, c \in CutEntries \ {<<>>}}
    \cup {BaseRecord \o m \o EntryBytes(TypeA.tag, 0, TypeA.LEN, <<3>>) \o c :
            m \in {WrongMarker, SubSeq(EXT_START_MARKER, 1, 7)},
            c \in {<<TypeA.tag>>, <<TypeA.tag, 0>>}}

\* The host's answers to Rent::from_account_info, Transfer::invoke and
\* AccountInfo::realloc during one add_extension: at most one of them fails.
HostAnswers ==
    {AllOk, <<FALSE, TRUE, TRUE>>, <<TRUE, FALSE, TRUE>>,
     <<TRUE, TRUE, FALSE>>}

\* The values tried by add_extension: every value when the host lets the call
\* through, one value when it makes the call fail (a failing call only
\* reads the value's type).
AddValues(E, host) == IF host = AllOk THEN Values(E) ELSE {[i \in 1..E.LEN |-> 3]}

Init ==
    /\ owner \in {OWNER_PROGRAM, "other_program"}
    /\ data \in InitBuffers
    /\ owner # OWNER_PROGRAM =>
          data \in {<<>>, BaseRecord,
                    BaseRecord \o EXT_START_MARKER
                       \o EntryBytes(TypeA.tag, 0, TypeA.LEN, <<0>>)}
    /\ last = NoCall
    /\ start = data
    /\ added = <<>>

AddExtension ==
    \E E \in ExtTypes, host \in HostAnswers :
      \E extension \in AddValues(E, host) :
        \E o \in {add_extension(owner, data, E, extension,
                                 host[1], host[2], host[3])} :
            /\ Len(o.data) <= MaxLen
            /\ data' = o.data
            /\ last' = Call("add", E, E.tag, extension, host, data, o.res,
                            o.calls, o.rent_size, NotFound, NoVariants)
            /\ added' = IF o.res = "Ok"
                        THEN Append(added, [E |-> E, at |-> Len(data),
                                            grew |-> Len(o.data) - Len(data)])
                        ELSE added
            /\ UNCHANGED <<owner, start>>

ZeroOutExtensionData ==
    \E E \in ExtTypes, ext_type \in ExtEnumTags :
        \E o \in {zero_out_extension_data(owner, data, E, ext_type)} :
            /\ data' = o.data
            /\ last' = Call("zero_out", E, ext_type, <<>>, AllOk, data, o.res,
                            o.calls, o.rent_size, NotFound, NoVariants)
            /\ UNCHANGED <<owner, start, added>>

UpdateExtension ==
    \E E \in ExtTypes, ext_type \in ExtEnumTags :
      \E extension \in Values(E) :
        \E o \in {update_extension(owner, data, E, ext_type, extension)} :
            /\ data' = o.data
            /\ last' = Call("update", E, ext_type, extension, AllOk, data, o.res,
                            o.calls, o.rent_size, NotFound, NoVariants)
            /\ UNCHANGED <<owner, start, added>>

GetExtension ==
    \E E \in ExtTypes, ext_type \in ExtEnumTags :
        \E info \in {get_extension(owner, data, E, ext_type)} :
            /\ last' = Call("get", E, ext_type, <<>>, AllOk, data,
                            IF info.kind = "Panic" THEN "Panic" ELSE "Ok",
                            <<>>, 0, info, NoVariants)
            /\ UNCHANGED <<owner, data, start, added>>

GetExtensionVariants ==
    \E v \in {get_extension_variants(owner, data)} :
        /\ last' = Call("get_variants", NoType, 0, <<>>, AllOk, data,
                        IF v.kind = "Panic" THEN "Panic" ELSE "Ok",
                        <<>>, 0, NotFound, v)
        /\ UNCHANGED <<owner, data, start, added>>

Next ==
    \/ AddExtension
    \/ ZeroOutExtensionData
    \/ UpdateExtension
    \/ GetExtension
    \/ GetExtensionVariants

Spec == Init /\ [][Next]_vars

TypeOK ==
    /\ owner \in {OWNER_PROGRAM, "other_program"}
    /\ \A i \in 1..Len(data) : data[i] \in 0..255

\* ------------------------------------------------------- the wire format
\* Read from the bytes alone: the region marker, and the header offsets of
\* the entries that are wholly present after it.
HasMarker(d) ==
    /\ Len(d) >= BASE_STATE_LEN + 8
    /\ Slice(d, BASE_STATE_LEN, BASE_STATE_LEN + 8) = EXT_START_MARKER

TagAt(d, p) == d[p + 1]
StateByteAt(d, p) == d[p + 2]
LenFieldAt(d, p) == d[p + 3] + 256 * d[p + 4]
PayloadAt(d, p) == Slice(d, p + 4, p + 4 + LenFieldAt(d, p))

RECURSIVE WholeEntriesFrom(_, _)
WholeEntriesFrom(d, c) ==
    IF c + 4 <= Len(d) /\ c + 4 + LenFieldAt(d, c) <= Len(d)
    THEN <<c>> \o WholeEntriesFrom(d, c + 4 + LenFieldAt(d, c))
    ELSE <<>>

\* The header offsets of the whole entries of d, in order.
WholeEntries(d) ==
    IF HasMarker(d) THEN WholeEntriesFrom(d, BASE_STATE_LEN + 8) ELSE <<>>

\* The offset just after the last whole entry.
WholeEnd(d) ==
    LET es == WholeEntries(d)
    IN  IF es = <<>> THEN BASE_STATE_LEN + 8
        ELSE es[Len(es)] + 4 + LenFieldAt(d, es[Len(es)])

\* What the Locator found on the buffer the last call started from.
PreInfo == get_extension(owner, last.pre, last.E, last.ext_type)

\* ------------------------------------------------------------------ claims

\* C1 (as claimed), on a buffer that add_extension built from a bare base
\* record: when update_extension, called for a type with that type's own
\* tag, finds an entry whose state is not Zeroed, a get_extension of the tag
\* right afterwards returns the new payload at the same position
\* with state Initialized.  The code records the state with the raw
\* discriminant (1), which the Locator decodes as Zeroed.
C1_UpdateRecordsInitialized ==
    (/\ start = BaseRecord
     /\ last.op = "update"
     /\ last.ext_type = last.E.tag
     /\ PreInfo.kind = "Some"
     /\ PreInfo.state # "Zerod")
    => LET now == get_extension(owner, data, last.E, last.ext_type)
       IN  /\ last.res = "Ok"
           /\ Len(data) = Len(last.pre)
           /\ now.kind = "Some"
           /\ now.position = PreInfo.position
           /\ now.ext = last.extension
           /\ now.state = "Initialized"

\* C2 (as claimed), on a buffer that add_extension built from a bare base
\* record: when the Locator finds the entry, zero_out_extension_data clears the payload only when the entry is Initialized, and it then
\* succeeds; it fails with "already zeroed" only when the entry is Zeroed.
C2_ZeroOutGuard ==
    (start = BaseRecord /\ last.op = "zero_out" /\ PreInfo.kind = "Some")
    => /\ PreInfo.state = "Initialized"
            => /\ last.res = "Ok"
               /\ Slice(data, PreInfo.position + 4,
                        PreInfo.position + 4 + last.E.LEN) = Zeros(last.E.LEN)
       /\ last.calls # <<>> => PreInfo.state = "Initialized"
       /\ last.res = "ExtensionDataAleadyZerod" => PreInfo.state = "Zerod"

\* C3: add_extension pays, then grows, then writes, each at most once; when
\* the transfer fails the call returns that failure and the buffer is as it
\* was, and the buffer changes only after the transfer and the growth.
C3_PayGrowWrite ==
    last.op = "add"
    => /\ last.calls \in Prefixes(<<"Transfer", "realloc", "sol_memcpy">>)
       /\ (last.calls # <<>> /\ ~last.host[2])
            => /\ last.res = "TransferError"
               /\ last.calls = <<"Transfer">>
               /\ data = last.pre
       /\ data # last.pre
            => /\ last.host[2]
               /\ last.calls = <<"Transfer", "realloc", "sol_memcpy">>

C3_Witness ==
    /\ last.op = "add"
    /\ ~last.host[2]
    /\ last.res = "TransferError"
    /\ Len(last.pre) > BASE_STATE_LEN

\* C4: a successful add_extension of E on a buffer of exactly BASE_STATE_LEN
\* bytes grows it by 8 + 4 + LEN and writes the marker and then the entry;
\* on a longer buffer it grows it by 4 + LEN and writes the entry at the old
\* end.  The entry is tag, the byte that decodes to Initialized, LEN as two
\* little-endian bytes, and the payload; the old bytes stay.
C4_AddLayout ==
    (last.op = "add" /\ last.res = "Ok")
    => LET n == Len(last.pre)
           first == n = BASE_STATE_LEN
           at == IF first THEN n + 8 ELSE n
           E == last.E
       IN  /\ Len(data) = n + (IF first THEN 8 ELSE 0) + 4 + E.LEN
           /\ Slice(data, 0, n) = last.pre
           /\ first => Slice(data, n, n + 8) = EXT_START_MARKER
           /\ data[at + 1] = E.tag
           /\ data[at + 2] = ExtensionState_as_u8("Initialized")
           /\ ExtensionState_from_u8(data[at + 2]) = "Initialized"
           /\ data[at + 3] = E.LEN % 256
           /\ data[at + 4] = E.LEN \div 256
           /\ Slice(data, at + 4, at + 4 + E.LEN) = last.extension

C4_Witness ==
    /\ last.op = "add"
    /\ last.res = "Ok"
    /\ Len(last.pre) > BASE_STATE_LEN
    /\ HasMarker(last.pre)
    /\ start = BaseRecord
    /\ last.E = TypeC

\* C5 (as claimed): on a buffer whose region is cut off after its last whole
\* entry, get_extension and get_extension_variants do not abort and return
\* what they return on the buffer without the cut-off remainder.  The code
\* indexes past the end (one header byte left, or a payload shorter than
\* declared) and lists the tag of a cut-off entry.
CutOff(d) == HasMarker(d) /\ WholeEnd(d) < Len(d)

C5_CutOffScan ==
    (last.op \in {"get", "get_variants"} /\ CutOff(data))
    => LET whole == SubSeq(data, 1, WholeEnd(data))
       IN  /\ last.res # "Panic"
           /\ last.op = "get"
                => last.info = get_extension(owner, whole, last.E, last.ext_type)
           /\ last.op = "get_variants"
                => last.variants = get_extension_variants(owner, whole)

\* C6 (as claimed), on a buffer that add_extension built from a bare base
\* record: add_extension, update_extension and zero_out_extension_data never
\* shorten the buffer, and every whole entry keeps its header offset, its
\* tag byte and its length field.  update_extension::<E> looks the entry up
\* by the tag it is handed and writes E's own tag over it.
C6_EntriesStay ==
    (start = BaseRecord /\ last.op \in {"add", "update", "zero_out"})
    => LET before == WholeEntries(last.pre)
           after == WholeEntries(data)
       IN  /\ Len(data) >= Len(last.pre)
           /\ Len(after) >= Len(before)
           /\ \A i \in 1..Len(before) :
                 /\ after[i] = before[i]
                 /\ TagAt(data, before[i]) = TagAt(last.pre, before[i])
                 /\ LenFieldAt(data, before[i]) = LenFieldAt(last.pre, before[i])

\* C7: from a buffer of exactly BASE_STATE_LEN bytes on, the bytes after the
\* marker are the entries of the successful add_extension calls, one after
\* the other in the order of the calls, each where its call wrote it and as
\* long as its type's LEN says, with nothing between or after them.
C7_RegionIsEntries ==
    (start = BaseRecord /\ added # <<>>)
    => LET es == WholeEntries(data)
       IN  /\ HasMarker(data)
           /\ Len(es) = Len(added)
           /\ WholeEnd(data) = Len(data)
           /\ \A i \in 1..Len(es) :
                 /\ es[i] = (IF i = 1 THEN BASE_STATE_LEN + 8
                             ELSE es[i - 1] + 4 + added[i - 1].E.LEN)
                 /\ es[i] = added[i].at + (IF i = 1 THEN 8 ELSE 0)
                 /\ LenFieldAt(data, es[i]) = added[i].E.LEN

C7_Witness ==
    /\ start = BaseRecord
    /\ Len(added) = 2
    /\ added[1].E.LEN # added[2].E.LEN
    /\ last.op = "update"
    /\ data # last.pre

\* An earlier successful add_extension of the tag of the last call.
EarlierAdds == {i \in 1..(Len(added) - 1) : added[i].E.tag = last.E.tag}

\* The second of two add_extension calls of one tag leaves every earlier
\* byte alone and appends a whole new entry.
C8_Appended ==
    /\ Slice(data, 0, Len(last.pre)) = last.pre
    /\ Len(data) = Len(last.pre) + ext_with_meta_len(last.E)
    /\ Slice(data, Len(last.pre), Len(data))
         = EntryBytes(last.E.tag, ExtensionState_as_u8("Initialized"),
                      last.E.LEN, last.extension)

\* C8 (as claimed): add_extension called twice with one tag makes two
\* separate entries, and the buffer grows by LEN + 4 on each of the calls.
C8_TwoAddsGrowByEntry ==
    (last.op = "add" /\ last.res = "Ok" /\ EarlierAdds # {})
    => /\ C8_Appended
       /\ added[Len(added)].grew = ext_with_meta_len(last.E)
       /\ \A i \in EarlierAdds : added[i].grew = ext_with_meta_len(added[i].E)

\* C8 (amended): add_extension called twice with one tag makes two separate
\* entries, and the buffer grows by LEN + 4 on each of the calls, and by the
\* 8 marker bytes more on a call that finds the buffer exactly
\* BASE_STATE_LEN bytes long.
C8_TwoAddsGrowByEntryAndMarker ==
    (last.op = "add" /\ last.res = "Ok" /\ EarlierAdds # {})
    => /\ C8_Appended
       /\ added[Len(added)].grew = ext_with_meta_len(last.E)
       /\ \A i \in EarlierAdds :
             added[i].grew = ext_with_meta_len(added[i].E)
                             + (IF added[i].at = BASE_STATE_LEN THEN 8 ELSE 0)

C8_Witness ==
    /\ last.op = "add"
    /\ last.res = "Ok"
    /\ \E i \in EarlierAdds : added[i].at = BASE_STATE_LEN
    /\ Len(WholeEntries(data)) = 2

\* C9: update_extension on an entry whose state is Zeroed fails with the
\* "not initialized" error and leaves the buffer as it was.
C9_UpdateOfZeroedFails ==
    (last.op = "update" /\ PreInfo.kind = "Some" /\ PreInfo.state = "Zerod")
    => /\ last.res = "ExtensionDataIsNotInitialized"
       /\ data = last.pre

C9_Witness ==
    /\ start = BaseRecord
    /\ last.op = "update"
    /\ PreInfo.kind = "Some"
    /\ PreInfo.state = "Zerod"
    /\ last.extension # PreInfo.ext

\* The region of d, if it has one, is whole entries that each carry a
\* lifecycle state byte.
WholeRegion(d) ==
    HasMarker(d)
    => /\ WholeEnd(d) = Len(d)
       /\ \A i \in 1..Len(WholeEntries(d)) :
             ExtensionState_from_u8(StateByteAt(d, WholeEntries(d)[i])) # "None"

\* The entries of d with tag t whose payload is as long as E's LEN.
EntriesOf(d, E, t) ==
    {p \in {WholeEntries(d)[i] : i \in 1..Len(WholeEntries(d))} :
        TagAt(d, p) = t /\ LenFieldAt(d, p) = E.LEN}

\* C10: on a buffer of the expected owner whose region is whole entries with
\* lifecycle state bytes, get_extension::<E>(tag) returns "not found" when
\* no entry has that tag and E's LEN, and otherwise such an entry: its
\* payload, the offset of its header and the state its state byte decodes
\* to; the buffer is as it was.
C10_GetExtension ==
    (last.op = "get" /\ owner = OWNER_PROGRAM /\ WholeRegion(data))
    => /\ data = last.pre
       /\ EntriesOf(data, last.E, last.ext_type) = {} => last.info = NotFound
       /\ EntriesOf(data, last.E, last.ext_type) # {}
            => /\ last.info.kind = "Some"
               /\ last.info.position \in EntriesOf(data, last.E, last.ext_type)
               /\ Len(last.info.ext) = last.E.LEN
               /\ last.info.ext = PayloadAt(data, last.info.position)
               /\ last.info.state =
                    ExtensionState_from_u8(StateByteAt(data, last.info.position))

C10_Witness ==
    /\ last.op = "get"
    /\ owner = OWNER_PROGRAM
    /\ WholeRegion(data)
    /\ last.info.kind = "Some"
    /\ last.info.position > BASE_STATE_LEN + 8
    /\ last.info.state = "Zerod"

\* The tags of the whole entries es of d that the enumeration V recognises,
\* in the order of the entries.
RECURSIVE RecognisedTags(_, _)
RecognisedTags(d, es) ==
    IF es = <<>> THEN <<>>
    ELSE (IF TagAt(d, es[1]) \in VariantTags THEN <<TagAt(d, es[1])>> ELSE <<>>)
         \o RecognisedTags(d, Tail(es))

\* C11: on a buffer of the expected owner whose region is whole entries,
\* get_extension_variants returns the tags of the entries that the
\* enumeration recognises, one for each such entry, in the order of the
\* entries; an entry with another tag adds nothing.
C11_VariantsInOrder ==
    (/\ last.op = "get_variants"
     /\ owner = OWNER_PROGRAM
     /\ HasMarker(data)
     /\ WholeEnd(data) = Len(data))
    => last.variants = SomeVariants(RecognisedTags(data, WholeEntries(data)))

C11_Witness ==
    /\ last.op = "get_variants"
    /\ start = BaseRecord
    /\ Len(WholeEntries(data)) = 2
    /\ TagAt(data, WholeEntries(data)[1]) \notin VariantTags
    /\ last.variants = SomeVariants(<<TypeA.tag>>)

\* C12: when the Locator finds no entry for the tag, update_extension and
\* zero_out_extension_data report success and the buffer is as it was.
C12_NotFoundIsNoOp ==
    (last.op \in {"update", "zero_out"} /\ PreInfo.kind = "None")
    => /\ last.res = "Ok"
       /\ last.calls = <<>>
       /\ data = last.pre

C12_Witness ==
    /\ last.op = "update"
    /\ start = BaseRecord
    /\ WholeEntries(last.pre) # <<>>
    /\ PreInfo.kind = "None"
    /\ last.ext_type = last.E.tag

\* The bytes add_extension reserves on a buffer of n bytes for a value of E.
Reserved(n, E) ==
    (IF n = BASE_STATE_LEN THEN 8 ELSE 0) + E.LEN + 4

\* C13 (as claimed): the amount add_extension transfers is minimum_balance
\* of the size the buffer is about to have, its length plus the bytes being
\* reserved.  (Rent::minimum_balance grows with the size, so the amounts are
\* compared by the sizes they are computed from.)
C13_PaysForNewTotalSize ==
    (last.op = "add" /\ last.calls # <<>>)
    => last.rent_size = Len(last.pre) + Reserved(Len(last.pre), last.E)

\* C13 (amended): the amount add_extension transfers is minimum_balance of
\* the number of bytes being reserved.
C13_PaysForReservedBytes ==
    (last.op = "add" /\ last.calls # <<>>)
    => last.rent_size = Reserved(Len(last.pre), last.E)

C13_Witness ==
    /\ last.op = "add"
    /\ last.res = "Ok"
    /\ Len(added) = 2
    /\ last.rent_size = 6

\* C14: add_extension fails with IllegalOwner when the owner is not the
\* expected one, and with InvalidAccountData when the buffer is empty or
\* shorter than BASE_STATE_LEN; in these cases nothing is transferred and
\* the buffer is neither grown nor written.
C14_AddPreconditions ==
    last.op = "add"
    => /\ owner # OWNER_PROGRAM
            => /\ last.res = "IllegalOwner"
               /\ last.calls = <<>>
               /\ data = last.pre
       /\ (owner = OWNER_PROGRAM /\ Len(last.pre) < BASE_STATE_LEN)
            => /\ last.res = "InvalidAccountData"
               /\ last.calls = <<>>
               /\ data = last.pre

C14_Witness ==
    /\ last.op = "add"
    /\ owner = OWNER_PROGRAM
    /\ Len(last.pre) > 0
    /\ Len(last.pre) < BASE_STATE_LEN
    /\ last.host = AllOk

\* The 8 bytes after the base record, as far as they are there.
MarkerBytes(d) ==
    IF Len(d) <= BASE_STATE_LEN THEN <<>>
    ELSE Slice(d, BASE_STATE_LEN,
               IF Len(d) < BASE_STATE_LEN + 8 THEN Len(d) ELSE BASE_STATE_LEN + 8)

\* The successful add_extension calls that wrote the marker.
MarkerWrites == {i \in 1..Len(added) : added[i].grew = added[i].E.LEN + 4 + 8}

\* C15 (as claimed): after a successful add_extension on a buffer of at
\* least BASE_STATE_LEN bytes the marker is at offset BASE_STATE_LEN.
C15_MarkerAfterAnyAdd ==
    (last.op = "add" /\ last.res = "Ok" /\ Len(last.pre) >= BASE_STATE_LEN)
    => HasMarker(data)

\* C15 (amended): the marker is written once, by the first successful
\* add_extension on a buffer of exactly BASE_STATE_LEN bytes, at offset
\* BASE_STATE_LEN; after a successful add_extension on a buffer of exactly
\* BASE_STATE_LEN bytes, or on a longer one that held the marker, the marker
\* is at that offset; and no add_extension, update_extension or
\* zero_out_extension_data changes bytes that are there at offsets
\* BASE_STATE_LEN to BASE_STATE_LEN + 8.
C15_MarkerWrittenOnce ==
    /\ Cardinality(MarkerWrites) <= 1
    /\ \A i \in MarkerWrites : i = 1 /\ added[i].at = BASE_STATE_LEN
    /\ (start = BaseRecord /\ added # <<>>) => MarkerWrites = {1}
    /\ (last.op = "add" /\ last.res = "Ok"
        /\ (Len(last.pre) = BASE_STATE_LEN \/ HasMarker(last.pre)))
         => HasMarker(data)
    /\ (last.op \in {"add", "update", "zero_out"} /\ Len(last.pre) > BASE_STATE_LEN)
         => MarkerBytes(data) = MarkerBytes(last.pre)

C15_Witness ==
    /\ start = BaseRecord
    /\ last.op = "add"
    /\ last.res = "Ok"
    /\ Len(added) = 2
    /\ HasMarker(data)

\* The whole entries of d whose state byte is neither lifecycle value.
UnknownStateEntries(d) ==
    {i \in 1..Len(WholeEntries(d)) : StateByteAt(d, WholeEntries(d)[i]) \notin {0, 1}}

FirstUnknown(d) ==
    CHOOSE i \in UnknownStateEntries(d) : \A j \in UnknownStateEntries(d) : i <= j

\* The whole entries of d, by index, with tag t and E's LEN.
MatchingEntries(d, E, t) ==
    {i \in 1..Len(WholeEntries(d)) :
        /\ TagAt(d, WholeEntries(d)[i]) = t
        /\ LenFieldAt(d, WholeEntries(d)[i]) = E.LEN}

\* C16: on a buffer of the expected owner whose region is whole entries of
\* which one carries an unknown state byte, get_extension finds a matching
\* entry that lies before the first such entry and reports "not found" for a
\* tag stored only in that entry or after it, while get_extension_variants
\* lists the recognised tags of all entries, that one and the later ones
\* included.
C16_UnknownStateByte ==
    (/\ owner = OWNER_PROGRAM
     /\ HasMarker(data)
     /\ WholeEnd(data) = Len(data)
     /\ UnknownStateEntries(data) # {})
    => /\ last.op = "get"
            => LET before == {i \in MatchingEntries(data, last.E, last.ext_type) :
                                 i < FirstUnknown(data)}
               IN  /\ before = {} => last.info = NotFound
                   /\ before # {}
                        => /\ last.info.kind = "Some"
                           /\ \E i \in before :
                                 last.info.position = WholeEntries(data)[i]
       /\ last.op = "get_variants"
            => /\ last.variants =
                    SomeVariants(RecognisedTags(data, WholeEntries(data)))
               /\ Len(last.variants.list) >=
                    Cardinality({i \in 1..Len(WholeEntries(data)) :
                                    /\ i >= FirstUnknown(data)
                                    /\ TagAt(data, WholeEntries(data)[i])
                                          \in VariantTags})

C16_Witness ==
    /\ owner = OWNER_PROGRAM
    /\ HasMarker(data)
    /\ WholeEnd(data) = Len(data)
    /\ UnknownStateEntries(data) # {}
    /\ last.op = "get"
    /\ last.info = NotFound
    /\ \E i \in MatchingEntries(data, last.E, last.ext_type) : i > FirstUnknown(data)

\* C17: a zero_out_extension_data that succeeds on a located entry leaves
\* that entry Zeroed with its LEN payload bytes zero, the buffer as long as
\* it was, and every byte outside the entry's payload, other than its state
\* byte, as it was.
C17_ZeroOutEffect ==
    (last.op = "zero_out" /\ last.res = "Ok" /\ PreInfo.kind = "Some")
    => LET p == PreInfo.position
           now == get_extension(owner, data, last.E, last.ext_type)
       IN  /\ Len(data) = Len(last.pre)
           /\ now = Found(Zeros(last.E.LEN), p, "Zerod")
           /\ Slice(data, p + 4, p + 4 + last.E.LEN) = Zeros(last.E.LEN)
           /\ \A i \in 1..Len(data) :
                 (i <= p + 4 \/ i > p + 4 + last.E.LEN) /\ i # p + 2
                     => data[i] = last.pre[i]

C17_Witness ==
    /\ start = BaseRecord
    /\ last.op = "zero_out"
    /\ last.res = "Ok"
    /\ PreInfo.kind = "Some"
    /\ data # last.pre
    /\ Len(WholeEntries(data)) = 2

\* C18: on a buffer of exactly BASE_STATE_LEN bytes, and on a longer one
\* whose 8 bytes at offset BASE_STATE_LEN are not the marker, get_extension
\* returns "not found" and get_extension_variants "no extensions", neither
\* aborting, whatever bytes follow.
C18_NoMarkerNoExtensions ==
    (Len(data) >= BASE_STATE_LEN /\ ~HasMarker(data))
    => /\ last.op = "get" => last.info = NotFound /\ last.res = "Ok"
       /\ last.op = "get_variants" => last.variants = NoVariants /\ last.res = "Ok"

C18_Witness ==
    /\ owner = OWNER_PROGRAM
    /\ Len(data) >= BASE_STATE_LEN + 8 + 5
    /\ ~HasMarker(data)
    /\ last.op = "get_variants"
    /\ TagAt(data, BASE_STATE_LEN + 8) \in VariantTags

\* C19: from a buffer of exactly BASE_STATE_LEN bytes on, a successful
\* add_extension of a value of E whose tag no entry carries yet is followed
\* by a get_extension of that tag that returns the value added, state
\* Initialized, and the offset at which the new entry's header was written.
C19_AddThenGet ==
    (/\ start = BaseRecord
     /\ last.op = "add"
     /\ last.res = "Ok"
     /\ \A i \in 1..Len(WholeEntries(last.pre)) :
           TagAt(last.pre, WholeEntries(last.pre)[i]) # last.E.tag)
    => get_extension(owner, data, last.E, last.E.tag)
         = Found(last.extension,
                 IF Len(last.pre) = BASE_STATE_LEN THEN BASE_STATE_LEN + 8
                 ELSE Len(last.pre),
                 "Initialized")

C19_Witness ==
    /\ start = BaseRecord
    /\ last.op = "add"
    /\ last.res = "Ok"
    /\ Len(added) = 2
    /\ TagAt(data, WholeEntries(data)[1]) # last.E.tag
    /\ StateByteAt(data, WholeEntries(data)[1]) = 1
    /\ get_extension(owner, data, last.E, last.E.tag).position = Len(last.pre)

\* The first of the entries of the buffer before the last call that have
\* the call's tag and its type's LEN.
FirstMatch ==
    CHOOSE i \in MatchingEntries(last.pre, last.E, last.ext_type) :
        \A j \in MatchingEntries(last.pre, last.E, last.ext_type) : i <= j

\* C20: on a buffer of the expected owner whose region is whole entries with
\* lifecycle state bytes, several of them with the call's tag and LEN,
\* get_extension returns the first of these, and update_extension and
\* zero_out_extension_data leave every byte outside that first entry as it
\* was, the later entries of the tag among them.
C20_FirstEntryOnly ==
    (/\ owner = OWNER_PROGRAM
     /\ WholeRegion(last.pre)
     /\ Cardinality(MatchingEntries(last.pre, last.E, last.ext_type)) >= 2)
    => LET p == WholeEntries(last.pre)[FirstMatch]
       IN  /\ last.op = "get"
                => /\ last.info.kind = "Some"
                   /\ last.info.position = p
                   /\ last.info.ext = PayloadAt(last.pre, p)
           /\ last.op \in {"update", "zero_out"}
                => /\ PreInfo.position = p
                   /\ Len(data) = Len(last.pre)
                   /\ \A i \in 1..Len(data) :
                         (i <= p \/ i > p + 4 + last.E.LEN)
                             => data[i] = last.pre[i]

C20_Witness ==
    /\ start = BaseRecord
    /\ owner = OWNER_PROGRAM
    /\ Cardinality(MatchingEntries(last.pre, last.E, last.ext_type)) >= 2
    /\ last.op = "update"
    /\ last.res = "Ok"
    /\ data # last.pre

====
